---- MODULE Spec2Model ----
(***************************************************************************)
(* HRMCognitive (rust-wasm/src/lib.rs): the cognitive processing pipeline, *)
(* personality adaptation, emotional state, memory buffer and scoring.     *)
(*                                                                         *)
(* f32 values are modelled in fixed point: the integer n stands for the    *)
(* number n / Scale, every operation rounds to the nearest representable   *)
(* value, and NaN is a value of its own that propagates through arithmetic *)
(* and fails every comparison, as IEEE 754 prescribes.                     *)
(***************************************************************************)
EXTENDS Integers, Sequences, FiniteSets, TLC

\* ------------------------------------------------------------------ f32

\* One unit of the fixed-point representation is 1 / Scale.
Scale == 10000

\* The f32 NaN (the result of 0.0 / 0.0); no number of the model is this large.
NaN == 999999999

\* What serde_json writes for a non-finite f32.
JsonNull == 888888888

IsNaN(x) == x = NaN

Abs(n) == IF n < 0 THEN -n ELSE n

Sign(n) == IF n < 0 THEN -1 ELSE 1

\* n / d for integers, d > 0, rounded to nearest (ties away from zero).
RoundDiv(n, d) == Sign(n) * ((2 * Abs(n) + d) \div (2 * d))

\* The f32 literal num/den, e.g. F(2, 10) for 0.2.
F(num, den) == RoundDiv(num * Scale, den)

FAdd(a, b) == IF IsNaN(a) \/ IsNaN(b) THEN NaN ELSE a + b

FSub(a, b) == IF IsNaN(a) \/ IsNaN(b) THEN NaN ELSE a - b

\* a * b; the product is split so that no intermediate exceeds 32 bits.
FMul(a, b) ==
    IF IsNaN(a) \/ IsNaN(b) THEN NaN
    ELSE LET p  == Abs(a)
             q  == Abs(b)
             ph == p \div Scale
             pl == p % Scale
             qh == q \div Scale
             ql == q % Scale
             mag == ph * qh * Scale + ph * ql + pl * qh
                    + (2 * pl * ql + Scale) \div (2 * Scale)
         IN  Sign(a) * Sign(b) * mag

\* a / (k as f32) for an integer k >= 0: every division of the program is by
\* a length, a planning depth or an integer literal.  0.0 / 0.0 is NaN; a sum
\* over no elements is 0.0, so a zero length always meets a zero dividend.
FDivInt(a, k) ==
    IF IsNaN(a) THEN NaN
    ELSE IF k = 0 THEN NaN
    ELSE RoundDiv(a, k)

\* a > b and a < b on f32: false when either side is NaN.
FGt(a, b) == ~IsNaN(a) /\ ~IsNaN(b) /\ a > b

FLt(a, b) == ~IsNaN(a) /\ ~IsNaN(b) /\ a < b

\* f32::min and f32::max: when one argument is NaN the other is returned.
FMin(a, b) == IF IsNaN(a) THEN b ELSE IF IsNaN(b) THEN a ELSE IF a < b THEN a ELSE b

FMax(a, b) == IF IsNaN(a) THEN b ELSE IF IsNaN(b) THEN a ELSE IF a > b THEN a ELSE b

\* f32::clamp: NaN stays NaN.
FClamp(x, lo, hi) == IF IsNaN(x) THEN NaN ELSE IF x < lo THEN lo ELSE IF x > hi THEN hi ELSE x

RECURSIVE ISqrtIter(_, _, _)
ISqrtIter(n, lo, hi) ==
    IF lo >= hi THEN lo
    ELSE LET mid == (lo + hi + 1) \div 2
         IN  IF mid * mid <= n THEN ISqrtIter(n, mid, hi)
             ELSE ISqrtIter(n, lo, mid - 1)

\* The integer square root of n >= 0.
ISqrt(n) == ISqrtIter(n, 0, 46340)

\* f32::sqrt: NaN for NaN and for negative arguments.
FSqrt(x) ==
    IF IsNaN(x) \/ x < 0 THEN NaN
    ELSE IF x <= 200000 THEN ISqrt(x * Scale)
    ELSE ISqrt(x) * ISqrt(Scale)

\* f32::tanh, by its continued fraction x / (1 + x^2 / (3 + x^2 / (5 + x^2 / 7))),
\* saturating at the largest value below 1 that the representation holds.
FTanh(x) ==
    IF IsNaN(x) THEN NaN
    ELSE IF Abs(x) >= 4 * Scale THEN Sign(x) * (Scale - 1)
    ELSE LET x2 == FMul(x, x)
             t3 == 5 * Scale + RoundDiv(x2, 7)
             t2 == 3 * Scale + RoundDiv(x2 * Scale, t3)
             t1 == Scale + RoundDiv(x2 * Scale, t2)
             r  == RoundDiv(Abs(x) * Scale, t1)
         IN  Sign(x) * (IF r >= Scale THEN Scale - 1 ELSE r)

\* iter().sum::<f32>(): 0.0 for no elements.
RECURSIVE FSum(_)
FSum(s) == IF s = <<>> THEN 0 ELSE FAdd(Head(s), FSum(Tail(s)))

\* serde_json's rendering of an f32: null for NaN.
JsonF32(x) == IF IsNaN(x) THEN JsonNull ELSE x

JsonSeq(s) == [i \in 1..Len(s) |-> JsonF32(s[i])]

\* ---------------------------------------------------------------- state

VARIABLES
    weights_len,          \* self.weights.len()
    l_modules,            \* Vec<LModule>: records [id, activation]
    h_modules,            \* Vec<HModule>: records [id, planning_depth, activation]
    personality_metrics,  \* personality_adapter.personality_metrics: name -> f32
    adaptation_history,   \* personality_adapter.adaptation_history
    host_interface,       \* [desktop_id, connection_status, message_queue]
    current_task,         \* cognitive_state.current_task
    attention_focus,      \* cognitive_state.attention_focus
    memory_buffer,        \* cognitive_state.memory_buffer
    emotional_state,      \* cognitive_state.emotional_state
    processing_mode,      \* cognitive_state.processing_mode
    now,                  \* the value js_sys::Date::now() returns
    output,               \* what the last call returned
    admitted,             \* history: the items pushed since the last clear
    last_init,            \* history: the counts of the last initialize_modules, or <<>>
    feedback_written,     \* history: the events update_user_feedback has written to
    nops,                 \* history: the number of calls made
    agent,                \* the AgentCore: [initialized, memory]
    agent_output,         \* what the last AgentCore call returned
    agent_calls           \* history: the AgentCore calls made, in order

vars == <<weights_len, l_modules, h_modules, personality_metrics, adaptation_history,
          host_interface, current_task, attention_focus, memory_buffer,
          emotional_state, processing_mode, now, output, admitted, last_init,
          feedback_written, nops, agent, agent_output, agent_calls>>

\* The AgentCore and its history, which no HRMCognitive call touches.
agent_vars == <<agent, agent_output, agent_calls>>

\* The HRMCognitive engine and its history, which no AgentCore call touches.
engine_vars ==
    <<weights_len, l_modules, h_modules, personality_metrics, adaptation_history,
      host_interface, current_task, attention_focus, memory_buffer,
      emotional_state, processing_mode, now, output, admitted, last_init,
      feedback_written, nops>>

\* ----------------------------------------------------- program constants

\* vec![0.0; 562_741_762]
TotalParameters == 562741762

\* attention_focus: vec![0.0; 10]
AttentionLen == 10

\* planning_depth: 5
PlanningDepth == 5

\* if self.cognitive_state.memory_buffer.len() > 100
MemoryCapacity == 100

\* .rev().take(10) and recent_events / 10.0
RecentEvents == 10

\* if weights_data.len() >= 1024
MinWeightBytes == 1024

\* learning_rate: 0.01
learning_rate == F(1, 100)

\* Option::None
None == "none"

Capabilities ==
    <<"cognitive_processing", "personality_adaptation", "memory_management",
      "emotional_modeling">>

\* ----------------------------------------------------------------- bounds

\* Calls per behaviour of Spec.
MaxOps == 4

\* Units a tier may hold.
MaxUnits == 5

\* Calls of process_cognitive_input per behaviour of SpecMem.
MaxMemCalls == 103

\* Messages the queue may hold.
MaxQueue == 2

\* ------------------------------------------------------ pipeline pieces

\* The weight apply_personality_adaptation gives a metric.
MetricWeight(metric) ==
    CASE metric = "creativity"    -> F(3, 10)
      [] metric = "analytical"    -> F(2, 10)
      [] metric = "empathy"       -> F(25, 100)
      [] metric = "assertiveness" -> F(15, 100)
      [] OTHER                    -> F(1, 10)

RECURSIVE InfluenceSum(_, _)
InfluenceSum(metrics, names) ==
    IF names = {} THEN 0
    ELSE LET m == CHOOSE x \in names : TRUE
         IN  FAdd(FMul(metrics[m], MetricWeight(m)), InfluenceSum(metrics, names \ {m}))

\* apply_personality_adaptation, the value returned: tanh of the weighted sum.
PersonalityInfluence(metrics) == FTanh(InfluenceSum(metrics, DOMAIN metrics))

\* apply_personality_adaptation, the event recorded.
NewAdaptationEvent(input, t) ==
    [timestamp |-> t, event_type |-> input.task_type, user_feedback |-> 0,
     context |-> input.context]

update_attention_focus(focus, sensory_data) ==
    [i \in 1..Len(focus) |->
        IF i <= Len(sensory_data)
        THEN FAdd(FMul(focus[i], F(8, 10)), FMul(sensory_data[i], F(2, 10)))
        ELSE focus[i]]

\* Mutant: the unit index used without the + 1.0.
LActivationZeroBased(i, sensory_data, personality_influence) ==
    LET mean == FDivInt(FSum(sensory_data), Len(sensory_data))
        base_activation == FDivInt(FMul(mean, (i - 1) * Scale), 10)
    IN  FMul(base_activation, FAdd(Scale, FMul(personality_influence, F(2, 10))))

\* The activation of the L-module at position i (from 1; the code's index is i - 1).
LActivation(i, sensory_data, personality_influence) ==
    LET mean == FDivInt(FSum(sensory_data), Len(sensory_data))
        base_activation == FDivInt(FMul(mean, i * Scale), 10)
    IN  FMul(base_activation, FAdd(Scale, FMul(personality_influence, F(2, 10))))

LActivations(n, sensory_data, personality_influence) ==
    [i \in 1..n |-> LActivation(i, sensory_data, personality_influence)]

\* The activation of the H-module at position i (from 1).
HActivation(i, planning_depth, l_activations, emotional_modifier) ==
    LET base_activation ==
            FDivInt(FMul(FDivInt(FSum(l_activations), planning_depth), i * Scale), 5)
    IN  FMul(base_activation, emotional_modifier)

HActivations(hmods, l_activations, emotional_modifier) ==
    [i \in 1..Len(hmods) |->
        HActivation(i, hmods[i].planning_depth, l_activations, emotional_modifier)]

EmotionalModifier(es) == FAdd(FMul(es.valence, F(1, 10)), Scale)

\* Mutant: valence smoothed towards the L-module energy like arousal.
update_emotional_state_valence(es, l_activations, h_activations) ==
    LET l_energy   == FDivInt(FSum(l_activations), Len(l_activations))
        h_planning == FDivInt(FSum(h_activations), Len(h_activations))
    IN  [valence   |-> FAdd(FMul(es.valence, F(9, 10)), FMul(l_energy, F(1, 10))),
         arousal   |-> FAdd(FMul(es.arousal, F(9, 10)), FMul(l_energy, F(1, 10))),
         dominance |-> FAdd(FMul(es.dominance, F(9, 10)), FMul(h_planning, F(1, 10))),
         stability |-> FAdd(FMul(es.stability, F(95, 100)), F(5, 100))]

\* Mutant: stability stepped up by 0.05 without the 0.95 decay.
update_emotional_state_additive(es, l_activations, h_activations) ==
    LET l_energy   == FDivInt(FSum(l_activations), Len(l_activations))
        h_planning == FDivInt(FSum(h_activations), Len(h_activations))
    IN  [valence   |-> es.valence,
         arousal   |-> FAdd(FMul(es.arousal, F(9, 10)), FMul(l_energy, F(1, 10))),
         dominance |-> FAdd(FMul(es.dominance, F(9, 10)), FMul(h_planning, F(1, 10))),
         stability |-> FAdd(es.stability, F(5, 100))]

update_emotional_state(es, l_activations, h_activations) ==
    LET l_energy   == FDivInt(FSum(l_activations), Len(l_activations))
        h_planning == FDivInt(FSum(h_activations), Len(h_activations))
    IN  [valence   |-> es.valence,
         arousal   |-> FAdd(FMul(es.arousal, F(9, 10)), FMul(l_energy, F(1, 10))),
         dominance |-> FAdd(FMul(es.dominance, F(9, 10)), FMul(h_planning, F(1, 10))),
         stability |-> FAdd(FMul(es.stability, F(95, 100)), F(5, 100))]

Significance(l_activations, h_activations) ==
    FDivInt(FAdd(FSum(l_activations), FSum(h_activations)),
            Len(l_activations) + Len(h_activations))

NewMemoryItem(input, significance, t) ==
    [id |-> t, content |-> <<input.task_type, input.context>>,
     importance |-> significance, timestamp |-> t,
     associations |-> <<input.task_type>>]

\* Mutant: the push without the eviction.
PushUnbounded(buffer, item) == Append(buffer, item)

\* Mutant: at capacity the newest item is dropped (pop) instead of the oldest.
PushEvictNewest(buffer, item) ==
    LET pushed == Append(buffer, item)
    IN  IF Len(pushed) > MemoryCapacity THEN SubSeq(pushed, 1, MemoryCapacity) ELSE pushed

\* push, then remove(0) when the buffer holds more than MemoryCapacity items.
PushBounded(buffer, item) ==
    LET pushed == Append(buffer, item)
    IN  IF Len(pushed) > MemoryCapacity THEN Tail(pushed) ELSE pushed

\* Mutant: every input with positive significance is admitted.
store_memory_if_positive(buffer, input, l_activations, h_activations, t) ==
    LET significance == Significance(l_activations, h_activations)
    IN  IF FGt(significance, 0)
        THEN PushBounded(buffer, NewMemoryItem(input, significance, t))
        ELSE buffer

store_memory_if_significant(buffer, input, l_activations, h_activations, t) ==
    LET significance == Significance(l_activations, h_activations)
    IN  IF FGt(significance, F(5, 10))
        THEN PushBounded(buffer, NewMemoryItem(input, significance, t))
        ELSE buffer

calculate_variance(values) ==
    IF values = <<>> THEN 0
    ELSE LET mean == FDivInt(FSum(values), Len(values))
             sq   == [i \in 1..Len(values) |->
                        LET d == FSub(values[i], mean) IN FMul(d, d)]
         IN  FSqrt(FDivInt(FSum(sq), Len(values)))

\* Mutant: the upper clamp .min(1.0) left out.
calculate_confidence_no_min(l_activations, h_activations, es) ==
    LET l_variance == calculate_variance(l_activations)
        h_variance == calculate_variance(h_activations)
    IN  FMax(FMul(FDivInt(FAdd(l_variance, h_variance), 2), es.stability), 0)

calculate_confidence(l_activations, h_activations, es) ==
    LET l_variance == calculate_variance(l_activations)
        h_variance == calculate_variance(h_activations)
    IN  FMax(FMin(FMul(FDivInt(FAdd(l_variance, h_variance), 2), es.stability),
                  Scale),
             0)

\* The feedback of the last RecentEvents events, newest first.
RecentFeedback(history) ==
    LET n == IF Len(history) < RecentEvents THEN Len(history) ELSE RecentEvents
    IN  [i \in 1..n |-> history[Len(history) + 1 - i].user_feedback]

\* Mutant: the average returned without .min(1.0).max(-1.0).
calculate_adaptation_score_unclamped(history) ==
    IF Len(history) = 0 THEN 0
    ELSE FDivInt(FSum(RecentFeedback(history)), 10)

calculate_adaptation_score(history) ==
    IF Len(history) = 0 THEN 0
    ELSE FMax(FMin(FDivInt(FSum(RecentFeedback(history)), 10), Scale), -Scale)

\* The numbers the reasoning text embeds: {:.1} of the percentages, {:.2} of valence.
generate_reasoning_result(input, l_activations, h_activations, es) ==
    LET l_avg == FDivInt(FSum(l_activations), Len(l_activations))
        h_avg == FDivInt(FSum(h_activations), Len(h_activations))
        Tenths(x) == IF IsNaN(x) THEN NaN ELSE RoundDiv(x, Scale \div 10)
        Hundredths(x) == IF IsNaN(x) THEN NaN ELSE RoundDiv(x, Scale \div 100)
    IN  [task_type |-> input.task_type,
         sensory_pct |-> Tenths(FMul(l_avg, 100 * Scale)),
         planning_pct |-> Tenths(FMul(h_avg, 100 * Scale)),
         valence |-> Hundredths(es.valence)]

\* ------------------------------------------------------------- returns

\* What a call returned: its kind, and the value or the CognitiveOutput fields.
Ret(kind, value) ==
    [kind |-> kind, value |-> value, reasoning_result |-> <<>>, confidence |-> 0,
     processing_time |-> 0, l_module_activations |-> <<>>,
     h_module_activations |-> <<>>, personality_influence |-> 0,
     adaptation_score |-> 0]

\* serde_json::to_string(&CognitiveOutput).
CognitiveOutput(reasoning, confidence, time, l_acts, h_acts, influence, score) ==
    [kind |-> "output", value |-> 0, reasoning_result |-> reasoning,
     confidence |-> JsonF32(confidence), processing_time |-> JsonF32(time),
     l_module_activations |-> JsonSeq(l_acts),
     h_module_activations |-> JsonSeq(h_acts),
     personality_influence |-> JsonF32(influence),
     adaptation_score |-> JsonF32(score)]

\* The "{}" process_cognitive_input returns for input it cannot parse.
EmptyRecord == Ret("empty", 0)

\* ------------------------------------------------------------- AgentCore

AgentId == "test-agent-init"

max_context_size == 10000

\* AgentCore::new()
AgentCoreNew == [initialized |-> FALSE, memory |-> <<>>]

\* What an AgentCore call returned.
AgentRet(kind, value) == [kind |-> kind, value |-> value]

\* {"error": "Agent not initialized"}
NotInitializedError == [error |-> "Agent not initialized"]

\* ------------------------------------------------------------------ Init

\* HRMCognitive::new(), with the unit collections given.
InitWith(lmods, hmods, counts) ==
    /\ weights_len = TotalParameters
    /\ l_modules = lmods
    /\ h_modules = hmods
    /\ personality_metrics = [m \in {} |-> 0]
    /\ adaptation_history = <<>>
    /\ host_interface = [desktop_id |-> None, connection_status |-> "Disconnected",
                         message_queue |-> <<>>]
    /\ current_task = None
    /\ attention_focus = [i \in 1..AttentionLen |-> 0]
    /\ memory_buffer = <<>>
    /\ emotional_state = [valence |-> 0, arousal |-> F(5, 10), dominance |-> F(5, 10),
                          stability |-> F(8, 10)]
    /\ processing_mode = "Analytical"
    /\ now = 0
    /\ output = Ret("new", 0)
    /\ admitted = <<>>
    /\ last_init = counts
    /\ feedback_written = {}
    /\ nops = 0
    /\ agent = AgentCoreNew
    /\ agent_output = AgentRet("new", TRUE)
    /\ agent_calls = <<>>

\* HRMCognitive::new()
Init == InitWith(<<>>, <<>>, <<>>)

\* --------------------------------------------------------------- actions

NewLModules(l_count) == [i \in 1..l_count |-> [id |-> i - 1, activation |-> 0]]

NewHModules(h_count) ==
    [i \in 1..h_count |-> [id |-> i - 1, planning_depth |-> PlanningDepth,
                           activation |-> 0]]

\* The unit collections after initialize_modules: the new units are pushed.
InitializedL(mods, l_count) == mods \o NewLModules(l_count)

InitializedH(mods, h_count) == mods \o NewHModules(h_count)

InitializeModules(l_count, h_count) ==
    /\ l_modules' = InitializedL(l_modules, l_count)
    /\ h_modules' = InitializedH(h_modules, h_count)
    /\ last_init' = <<l_count, h_count>>
    /\ output' = Ret("initialize_modules", 0)
    /\ UNCHANGED <<weights_len, personality_metrics, adaptation_history, host_interface,
                   current_task, attention_focus, memory_buffer, emotional_state,
                   processing_mode, now, admitted, feedback_written, agent_vars>>

\* Mutant: the confidence scored with the emotional state the call started with.
ReturnedConfidenceBeforeUpdate(es, l_activations, h_activations) ==
    calculate_confidence(l_activations, h_activations, es)

\* The confidence process_cognitive_input returns: calculate_confidence reads
\* self.cognitive_state.emotional_state after update_emotional_state has written it.
ReturnedConfidence(es, l_activations, h_activations) ==
    calculate_confidence(l_activations, h_activations,
                         update_emotional_state(es, l_activations, h_activations))

\* process_cognitive_input on a text serde_json parses into `input`.
\* (Each \E over a one-element set names a local of the handler.)
ProcessParsed(input) ==
    \E personality_influence \in {PersonalityInfluence(personality_metrics)} :
    \E history \in {Append(adaptation_history, NewAdaptationEvent(input, now))} :
    \E l_activations \in
          {LActivations(Len(l_modules), input.sensory_data, personality_influence)} :
    \E h_activations \in
          {HActivations(h_modules, l_activations, EmotionalModifier(emotional_state))} :
    \E es \in {update_emotional_state(emotional_state, l_activations, h_activations)} :
        /\ current_task' = input.task_type
        /\ attention_focus' = update_attention_focus(attention_focus, input.sensory_data)
        /\ adaptation_history' = history
        /\ l_modules' = [i \in 1..Len(l_modules) |->
                            [l_modules[i] EXCEPT !.activation = l_activations[i]]]
        /\ h_modules' = [i \in 1..Len(h_modules) |->
                            [h_modules[i] EXCEPT !.activation = h_activations[i]]]
        /\ emotional_state' = es
        /\ memory_buffer' = store_memory_if_significant(memory_buffer, input,
                                                        l_activations, h_activations, now)
        /\ admitted' =
               LET significance == Significance(l_activations, h_activations)
               IN  IF FGt(significance, F(5, 10))
                   THEN Append(admitted, NewMemoryItem(input, significance, now))
                   ELSE admitted
        /\ output' = CognitiveOutput(
                        generate_reasoning_result(input, l_activations, h_activations, es),
                        ReturnedConfidence(emotional_state, l_activations, h_activations),
                        0, l_activations, h_activations, personality_influence,
                        calculate_adaptation_score(history))
        /\ now' = now + 1
        /\ UNCHANGED <<weights_len, personality_metrics, host_interface, processing_mode,
                       last_init, feedback_written, agent_vars>>

\* Mutant: current_task is recorded before the text is parsed.
ProcessCognitiveInputEager(input_json) ==
    IF input_json.parses
    THEN ProcessParsed(input_json.input)
    ELSE /\ output' = EmptyRecord
         /\ current_task' = "unparsed"
         /\ UNCHANGED <<weights_len, l_modules, h_modules, personality_metrics,
                        adaptation_history, host_interface, attention_focus,
                        memory_buffer, emotional_state, processing_mode, now,
                        admitted, last_init, feedback_written, agent_vars>>

\* Mutant: the mode is wired in: an engine in Creative mode rejects every input.
ProcessCognitiveInputByMode(input_json) ==
    IF input_json.parses /\ processing_mode # "Creative"
    THEN ProcessParsed(input_json.input)
    ELSE /\ output' = EmptyRecord
         /\ UNCHANGED <<weights_len, l_modules, h_modules, personality_metrics,
                        adaptation_history, host_interface, current_task,
                        attention_focus, memory_buffer, emotional_state,
                        processing_mode, now, admitted, last_init, feedback_written,
                        agent_vars>>

\* process_cognitive_input: input_json is [parses, input].
ProcessCognitiveInput(input_json) ==
    IF input_json.parses
    THEN ProcessParsed(input_json.input)
    ELSE /\ output' = EmptyRecord
         /\ UNCHANGED <<weights_len, l_modules, h_modules, personality_metrics,
                        adaptation_history, host_interface, current_task,
                        attention_focus, memory_buffer, emotional_state,
                        processing_mode, now, admitted, last_init, feedback_written,
                        agent_vars>>

\* weights_data of n bytes.
LoadWeights(n) ==
    /\ weights_len' = IF /\ n >= MinWeightBytes
                         /\ \/ n \div 4 > weights_len
                            \/ (n \div 4 = weights_len /\ n % 4 # 0)
                      THEN n \div 4
                      ELSE weights_len
    /\ output' = Ret("load_weights", n >= MinWeightBytes)
    /\ UNCHANGED <<l_modules, h_modules, personality_metrics, adaptation_history,
                   host_interface, current_task, attention_focus, memory_buffer,
                   emotional_state, processing_mode, now, admitted, last_init,
                   feedback_written, agent_vars>>

MetricsInsert(metrics, metric, value) ==
    [m \in DOMAIN metrics \cup {metric} |-> IF m = metric THEN value ELSE metrics[m]]

SetPersonalityMetric(metric, value) ==
    /\ personality_metrics' =
           MetricsInsert(personality_metrics, metric, FClamp(value, -Scale, Scale))
    /\ output' = Ret("set_personality_metric", 0)
    /\ UNCHANGED <<weights_len, l_modules, h_modules, adaptation_history, host_interface,
                   current_task, attention_focus, memory_buffer, emotional_state,
                   processing_mode, now, admitted, last_init, feedback_written, agent_vars>>

\* The value adapt_personality_from_feedback leaves in one metric.
AdaptedMetric(metric, value, feedback) ==
    LET adjusted ==
            CASE metric = "creativity" ->
                    IF FGt(feedback, F(5, 10))
                    THEN FAdd(value, FMul(learning_rate, F(1, 10)))
                    ELSE IF FLt(feedback, F(-5, 10))
                    THEN FSub(value, FMul(learning_rate, F(1, 10)))
                    ELSE value
              [] metric = "analytical" ->
                    IF FGt(feedback, F(3, 10))
                    THEN FAdd(value, FMul(learning_rate, F(5, 100)))
                    ELSE value
              [] OTHER ->
                    FAdd(value, FMul(FMul(learning_rate, feedback), F(2, 100)))
    IN  FClamp(adjusted, -Scale, Scale)

adapt_personality_from_feedback(metrics, feedback) ==
    [m \in DOMAIN metrics |-> AdaptedMetric(m, metrics[m], feedback)]

\* Mutant: the feedback written as given.
RecordedFeedbackRaw(feedback) == feedback

\* The feedback update_user_feedback writes into the last event.
RecordedFeedback(feedback) == FClamp(feedback, -Scale, Scale)

\* Mutant: the metrics are adapted whether or not there is an event to write to.
UpdateUserFeedbackAlways(feedback) ==
    /\ IF adaptation_history # <<>>
       THEN /\ adaptation_history' =
                   [adaptation_history EXCEPT ![Len(adaptation_history)].user_feedback =
                        RecordedFeedback(feedback)]
            /\ feedback_written' = feedback_written \cup {Len(adaptation_history)}
       ELSE UNCHANGED <<adaptation_history, feedback_written>>
    /\ personality_metrics' =
           adapt_personality_from_feedback(personality_metrics, feedback)
    /\ output' = Ret("update_user_feedback", 0)
    /\ UNCHANGED <<weights_len, l_modules, h_modules, host_interface, current_task,
                   attention_focus, memory_buffer, emotional_state, processing_mode,
                   now, admitted, last_init, agent_vars>>

UpdateUserFeedback(feedback) ==
    /\ IF adaptation_history # <<>>
       THEN /\ adaptation_history' =
                   [adaptation_history EXCEPT ![Len(adaptation_history)].user_feedback =
                        RecordedFeedback(feedback)]
            /\ personality_metrics' =
                   adapt_personality_from_feedback(personality_metrics, feedback)
            /\ feedback_written' = feedback_written \cup {Len(adaptation_history)}
       ELSE UNCHANGED <<adaptation_history, personality_metrics, feedback_written>>
    /\ output' = Ret("update_user_feedback", 0)
    /\ UNCHANGED <<weights_len, l_modules, h_modules, host_interface, current_task,
                   attention_focus, memory_buffer, emotional_state, processing_mode,
                   now, admitted, last_init, agent_vars>>

ParseMode(mode) ==
    CASE mode = "analytical"    -> "Analytical"
      [] mode = "creative"      -> "Creative"
      [] mode = "reactive"      -> "Reactive"
      [] mode = "contemplative" -> "Contemplative"
      [] OTHER                  -> "Analytical"

SetProcessingMode(mode) ==
    /\ processing_mode' = ParseMode(mode)
    /\ output' = Ret("set_processing_mode", 0)
    /\ UNCHANGED <<weights_len, l_modules, h_modules, personality_metrics,
                   adaptation_history, host_interface, current_task, attention_focus,
                   memory_buffer, emotional_state, now, admitted, last_init,
                   feedback_written, agent_vars>>

\* Mutant: the adaptation history is cleared along with the buffer.
ClearMemoryBufferAndHistory ==
    /\ memory_buffer' = <<>>
    /\ admitted' = <<>>
    /\ adaptation_history' = <<>>
    /\ feedback_written' = {}
    /\ output' = Ret("clear_memory_buffer", 0)
    /\ UNCHANGED <<weights_len, l_modules, h_modules, personality_metrics,
                   host_interface, current_task, attention_focus,
                   emotional_state, processing_mode, now, last_init, agent_vars>>

ClearMemoryBuffer ==
    /\ memory_buffer' = <<>>
    /\ admitted' = <<>>
    /\ output' = Ret("clear_memory_buffer", 0)
    /\ UNCHANGED <<weights_len, l_modules, h_modules, personality_metrics,
                   adaptation_history, host_interface, current_task, attention_focus,
                   emotional_state, processing_mode, now, last_init, feedback_written,
                   agent_vars>>

ConnectToDesktop(desktop_id) ==
    /\ host_interface' =
           [desktop_id |-> desktop_id, connection_status |-> "Connected",
            message_queue |->
                Append(host_interface.message_queue,
                       [id |-> <<"cap", now>>, message_type |-> "capabilities",
                        payload |-> Capabilities, timestamp |-> now, priority |-> 1])]
    /\ output' = Ret("connect_to_desktop", TRUE)
    /\ now' = now + 1
    /\ UNCHANGED <<weights_len, l_modules, h_modules, personality_metrics,
                   adaptation_history, current_task, attention_focus, memory_buffer,
                   emotional_state, processing_mode, admitted, last_init,
                   feedback_written, agent_vars>>

SendHostMessage(message_type, payload) ==
    /\ host_interface' =
           [host_interface EXCEPT !.message_queue =
                Append(@, [id |-> <<"msg", now>>, message_type |-> message_type,
                           payload |-> payload, timestamp |-> now, priority |-> 2])]
    /\ output' = Ret("send_host_message", <<"msg", now>>)
    /\ now' = now + 1
    /\ UNCHANGED <<weights_len, l_modules, h_modules, personality_metrics,
                   adaptation_history, current_task, attention_focus, memory_buffer,
                   emotional_state, processing_mode, admitted, last_init,
                   feedback_written, agent_vars>>

\* Mutant: the queue is returned but not cleared.
GetPendingMessagesKeep ==
    /\ output' = Ret("get_pending_messages", host_interface.message_queue)
    /\ UNCHANGED <<weights_len, l_modules, h_modules, personality_metrics,
                   adaptation_history, host_interface, current_task, attention_focus,
                   memory_buffer, emotional_state, processing_mode, now, admitted,
                   last_init, feedback_written, agent_vars>>

GetPendingMessages ==
    /\ output' = Ret("get_pending_messages", host_interface.message_queue)
    /\ host_interface' = [host_interface EXCEPT !.message_queue = <<>>]
    /\ UNCHANGED <<weights_len, l_modules, h_modules, personality_metrics,
                   adaptation_history, current_task, attention_focus, memory_buffer,
                   emotional_state, processing_mode, now, admitted, last_init,
                   feedback_written, agent_vars>>

\* ------------------------------------------------------------- getters

get_model_info ==
    [total_parameters |-> weights_len, l_modules |-> Len(l_modules),
     h_modules |-> Len(h_modules)]

get_memory_summary ==
    [memory_count |-> Len(memory_buffer),
     average_importance |->
        IF Len(memory_buffer) > 0
        THEN FDivInt(FSum([i \in 1..Len(memory_buffer) |-> memory_buffer[i].importance]),
                     Len(memory_buffer))
        ELSE 0,
     emotional_valence |-> emotional_state.valence,
     current_task |-> current_task]

\* --------------------------------------------------------------- inputs

Json(sensory_data) ==
    [parses |-> TRUE,
     input |-> [sensory_data |-> sensory_data, context |-> "ctx",
                task_type |-> "analysis"]]

\* A text serde_json rejects.
Malformed ==
    [parses |-> FALSE,
     input |-> [sensory_data |-> <<>>, context |-> "", task_type |-> ""]]

Quiet == Json(<<F(1, 1), F(2, 1), F(3, 1)>>)

Loud == Json(<<F(30, 1), F(30, 1)>>)

NoData == Json(<<>>)

InputJsons == {Quiet, Loud, NoData, Malformed}

UnitCounts == {<<3, 2>>, <<2, 0>>, <<0, 1>>}

MetricNames == {"creativity", "curiosity"}

MetricValues == {F(5, 10), F(-2, 1), NaN}

FeedbackValues == {F(9, 10), F(-2, 1), NaN}

ModeNames == {"creative", "bogus"}

WeightSizes == {16, 2048}

\* ----------------------------------------------------------------- Spec

\* One more call, while the behaviour has calls left.
Call == nops < MaxOps /\ nops' = nops + 1

Next ==
    \/ \E c \in UnitCounts :
          /\ Len(l_modules) + c[1] <= MaxUnits
          /\ Len(h_modules) + c[2] <= MaxUnits
          /\ InitializeModules(c[1], c[2]) /\ Call
    \/ \E j \in InputJsons : ProcessCognitiveInput(j) /\ Call
    \/ \E m \in MetricNames, v \in MetricValues : SetPersonalityMetric(m, v) /\ Call
    \/ \E f \in FeedbackValues : UpdateUserFeedback(f) /\ Call
    \/ \E m \in ModeNames : SetProcessingMode(m) /\ Call
    \/ ClearMemoryBuffer /\ Call
    \/ \E n \in WeightSizes : LoadWeights(n) /\ Call
    \/ ConnectToDesktop("desk") /\ Len(host_interface.message_queue) < MaxQueue /\ Call
    \/ SendHostMessage("task", "payload")
          /\ Len(host_interface.message_queue) < MaxQueue /\ Call
    \/ GetPendingMessages /\ Call

Spec == Init /\ [][Next]_vars

\* -------------------------------------------------------------- SpecMem
\* The memory buffer at capacity: an engine with 3 L-modules and 2 H-modules
\* that processes inputs and clears its buffer, for MaxMemCalls calls.

\* new() followed by initialize_modules(3, 2).
InitMem == InitWith(InitializedL(<<>>, 3), InitializedH(<<>>, 2), <<3, 2>>)

\* Inputs below the significance threshold arrive among the first calls only.
MaxQuietCalls == 2

NextMem ==
    \/ /\ Len(adaptation_history) < MaxMemCalls
       /\ ProcessCognitiveInput(Loud)
       /\ UNCHANGED nops
    \/ /\ Len(adaptation_history) < MaxQuietCalls
       /\ ProcessCognitiveInput(Quiet)
       /\ UNCHANGED nops
    \/ ClearMemoryBuffer /\ UNCHANGED nops

SpecMem == InitMem /\ [][NextMem]_vars

\* ------------------------------------------------------------- SpecLong
\* A long-running engine: any MaxPrefixOps public calls, then process calls
\* only, until the history holds MaxLongCalls events.

MaxPrefixOps == 2

MaxLongCalls == 110

NextLong ==
    \/ nops < MaxPrefixOps /\ Next
    \/ /\ nops >= MaxPrefixOps
       /\ Len(adaptation_history) < MaxLongCalls
       /\ ProcessCognitiveInput(Loud)
       /\ UNCHANGED nops

SpecLong == Init /\ [][NextLong]_vars

\* ------------------------------------------------------------ SpecShort
\* The engine under MaxShortOps public calls of any kind.

MaxShortOps == 3

NextShort == nops < MaxShortOps /\ Next

SpecShort == Init /\ [][NextShort]_vars

\* ------------------------------------------------------------ SpecAgent
\* The AgentCore under MaxAgentCalls public calls.

\* process_cognitive_input of AgentCore: input is [text, len].
AgentProcess(input, context) ==
    [success |-> TRUE,
     response |-> <<"Processed", input.text>>,
     confidence |-> IF input.len > 10 THEN F(8, 10) ELSE F(6, 10),
     agentId |-> AgentId,
     contextSize |-> context.len]

\* Mutant: loading an adapter marks the agent initialized.
AgentCoreLoadLoraInitializes(adapter) ==
    /\ agent' = [agent EXCEPT !.initialized = TRUE]
    /\ agent_output' = AgentRet("agent_core_load_lora", TRUE)
    /\ agent_calls' = Append(agent_calls, "agent_core_load_lora")
    /\ UNCHANGED engine_vars

AgentCoreExecute(input, context) ==
    /\ IF ~agent.initialized
       THEN /\ agent_output' = AgentRet("agent_core_execute", NotInitializedError)
            /\ UNCHANGED agent
       ELSE /\ agent_output' = AgentRet("agent_core_execute", AgentProcess(input, context))
            /\ agent' = [agent EXCEPT !.memory =
                            LET pushed == Append(@, input.text)
                            IN  IF Len(pushed) > max_context_size
                                THEN Tail(pushed) ELSE pushed]
    /\ agent_calls' = Append(agent_calls, "agent_core_execute")
    /\ UNCHANGED engine_vars

AgentCoreExecuteTool(tool_name, parameters, context) ==
    /\ agent_output' =
           AgentRet("agent_core_execute_tool",
                    IF ~agent.initialized
                    THEN NotInitializedError
                    ELSE [success |-> TRUE, result |-> <<"Tool", tool_name>>,
                          parameters |-> parameters, agentId |-> AgentId])
    /\ agent_calls' = Append(agent_calls, "agent_core_execute_tool")
    /\ UNCHANGED <<agent, engine_vars>>

AgentCoreLoadLora(adapter) ==
    /\ agent_output' = AgentRet("agent_core_load_lora", TRUE)
    /\ agent_calls' = Append(agent_calls, "agent_core_load_lora")
    /\ UNCHANGED <<agent, engine_vars>>

AgentCoreApplySkill(proto_bytes) ==
    /\ agent_output' = AgentRet("agent_core_apply_skill", TRUE)
    /\ agent_calls' = Append(agent_calls, "agent_core_apply_skill")
    /\ UNCHANGED <<agent, engine_vars>>

AgentCoreGetStatus ==
    /\ agent_output' =
           AgentRet("agent_core_get_status",
                    [agentId |-> AgentId, initialized |-> agent.initialized,
                     memorySize |-> Len(agent.memory)])
    /\ agent_calls' = Append(agent_calls, "agent_core_get_status")
    /\ UNCHANGED <<agent, engine_vars>>

AgentTexts == {[text |-> "hi", len |-> 2], [text |-> "a longer input", len |-> 14]}

MaxAgentCalls == 3

NextAgent ==
    \/ \E input \in AgentTexts :
          Len(agent_calls) < MaxAgentCalls /\ AgentCoreExecute(input, input)
    \/ Len(agent_calls) < MaxAgentCalls /\ \E context \in AgentTexts :
          AgentCoreExecuteTool("tool", "{}", context)
    \/ Len(agent_calls) < MaxAgentCalls /\ AgentCoreLoadLora("adapter")
    \/ Len(agent_calls) < MaxAgentCalls /\ AgentCoreApplySkill(<<1, 2>>)
    \/ Len(agent_calls) < MaxAgentCalls /\ AgentCoreGetStatus

SpecAgent == Init /\ [][NextAgent]_vars

\* ------------------------------------------------------- the engine as a value
\* The public methods as functions of the engine `self`, the arguments and the
\* clock reading t, giving the engine after the call and what the call returns.
\* They let an engine other than the one the variables hold receive a call.

Modes == {"Analytical", "Creative", "Reactive", "Contemplative"}

\* The engine the variables hold, with processing_mode replaced by mode.
Self(mode) ==
    [weights_len |-> weights_len, l_modules |-> l_modules, h_modules |-> h_modules,
     personality_metrics |-> personality_metrics,
     adaptation_history |-> adaptation_history, host_interface |-> host_interface,
     current_task |-> current_task, attention_focus |-> attention_focus,
     memory_buffer |-> memory_buffer, emotional_state |-> emotional_state,
     processing_mode |-> mode]

Returns(self, ret) == [self |-> self, ret |-> ret]

initialize_modules(self, l_count, h_count) ==
    Returns([self EXCEPT !.l_modules = InitializedL(@, l_count),
                         !.h_modules = InitializedH(@, h_count)],
            Ret("initialize_modules", 0))

process_cognitive_input(self, input_json, t) ==
    IF ~input_json.parses THEN Returns(self, EmptyRecord)
    ELSE
    LET input == input_json.input
        personality_influence == PersonalityInfluence(self.personality_metrics)
        history == Append(self.adaptation_history, NewAdaptationEvent(input, t))
        l_activations ==
            LActivations(Len(self.l_modules), input.sensory_data, personality_influence)
        h_activations ==
            HActivations(self.h_modules, l_activations,
                         EmotionalModifier(self.emotional_state))
        es == update_emotional_state(self.emotional_state, l_activations, h_activations)
    IN  Returns(
            [self EXCEPT
                !.current_task = input.task_type,
                !.attention_focus = update_attention_focus(@, input.sensory_data),
                !.adaptation_history = history,
                !.l_modules = [i \in 1..Len(@) |->
                                  [@[i] EXCEPT !.activation = l_activations[i]]],
                !.h_modules = [i \in 1..Len(@) |->
                                  [@[i] EXCEPT !.activation = h_activations[i]]],
                !.emotional_state = es,
                !.memory_buffer = store_memory_if_significant(@, input, l_activations,
                                                              h_activations, t)],
            CognitiveOutput(
                generate_reasoning_result(input, l_activations, h_activations, es),
                calculate_confidence(l_activations, h_activations, es),
                0, l_activations, h_activations, personality_influence,
                calculate_adaptation_score(history)))

load_weights(self, n) ==
    Returns([self EXCEPT !.weights_len =
                 IF /\ n >= MinWeightBytes
                    /\ \/ n \div 4 > @
                       \/ (n \div 4 = @ /\ n % 4 # 0)
                 THEN n \div 4 ELSE @],
            Ret("load_weights", n >= MinWeightBytes))

set_personality_metric(self, metric, value) ==
    Returns([self EXCEPT !.personality_metrics =
                 MetricsInsert(@, metric, FClamp(value, -Scale, Scale))],
            Ret("set_personality_metric", 0))

update_user_feedback(self, feedback) ==
    Returns(IF self.adaptation_history # <<>>
            THEN [self EXCEPT
                     !.adaptation_history[Len(self.adaptation_history)].user_feedback =
                         FClamp(feedback, -Scale, Scale),
                     !.personality_metrics =
                         adapt_personality_from_feedback(@, feedback)]
            ELSE self,
            Ret("update_user_feedback", 0))

set_processing_mode(self, mode) ==
    Returns([self EXCEPT !.processing_mode = ParseMode(mode)],
            Ret("set_processing_mode", 0))

clear_memory_buffer(self) ==
    Returns([self EXCEPT !.memory_buffer = <<>>], Ret("clear_memory_buffer", 0))

connect_to_desktop(self, desktop_id, t) ==
    Returns([self EXCEPT !.host_interface =
                 [desktop_id |-> desktop_id, connection_status |-> "Connected",
                  message_queue |->
                      Append(@.message_queue,
                             [id |-> <<"cap", t>>, message_type |-> "capabilities",
                              payload |-> Capabilities, timestamp |-> t,
                              priority |-> 1])]],
            Ret("connect_to_desktop", TRUE))

send_host_message(self, message_type, payload, t) ==
    Returns([self EXCEPT !.host_interface.message_queue =
                 Append(@, [id |-> <<"msg", t>>, message_type |-> message_type,
                            payload |-> payload, timestamp |-> t, priority |-> 2])],
            Ret("send_host_message", <<"msg", t>>))

get_pending_messages(self) ==
    Returns([self EXCEPT !.host_interface.message_queue = <<>>],
            Ret("get_pending_messages", self.host_interface.message_queue))

\* ================================================================ claims

Min(a, b) == IF a < b THEN a ELSE b

InRange(x, lo, hi) == ~IsNaN(x) /\ x # JsonNull /\ lo <= x /\ x <= hi

\* C1: in every reachable state the memory buffer holds at most 100 items.
C1_MemoryBounded == Len(memory_buffer) <= MemoryCapacity

\* The buffer is full and an item has been evicted.
C1_Witness == Len(memory_buffer) = MemoryCapacity /\ Len(admitted) > MemoryCapacity

\* C2: eviction is strict FIFO: after n admissions since the last clear the
\* buffer is exactly the last min(n, 100) admitted items, in admission order;
\* after 101 admissions the 1st is absent and the 2nd to 101st are present in order.
C2_StrictFifo ==
    LET n == Len(admitted)
        k == Min(n, MemoryCapacity)
    IN  /\ memory_buffer = SubSeq(admitted, n - k + 1, n)
        /\ n = MemoryCapacity + 1 =>
              /\ \A i \in 1..Len(memory_buffer) : memory_buffer[i] # admitted[1]
              /\ Len(memory_buffer) = MemoryCapacity
              /\ \A i \in 1..MemoryCapacity : memory_buffer[i] = admitted[i + 1]

\* 101 admissions since the last clear, among calls that were not all admitted.
C2_Witness ==
    /\ Len(admitted) = MemoryCapacity + 1
    /\ Len(adaptation_history) > Len(admitted)

\* C3: for a pool initialized with F fast and D deep units, every successful
\* process_cognitive_input returns exactly F fast and D deep activations, and
\* element i of each returned sequence is the activation of the unit whose id is i.
C3_OutputMatchesPool ==
    (output.kind = "output" /\ last_init # <<>>) =>
        /\ Len(output.l_module_activations) = last_init[1]
        /\ Len(output.h_module_activations) = last_init[2]
        /\ \A i \in 1..Len(output.l_module_activations) :
              \A u \in 1..Len(l_modules) :
                  l_modules[u].id = i - 1 =>
                      output.l_module_activations[i] = JsonF32(l_modules[u].activation)
        /\ \A i \in 1..Len(output.h_module_activations) :
              \A u \in 1..Len(h_modules) :
                  h_modules[u].id = i - 1 =>
                      output.h_module_activations[i] = JsonF32(h_modules[u].activation)

\* C4: after any sequence of initialize_modules calls the pool holds exactly the
\* F fast and D deep units of the last call, with ids 0..F-1 and 0..D-1 and
\* planning_depth 5, with zero activation when the call returns, and
\* get_model_info reports those counts.
C4_InitializeReplaces ==
    last_init # <<>> =>
        /\ Len(l_modules) = last_init[1]
        /\ Len(h_modules) = last_init[2]
        /\ \A i \in 1..Len(l_modules) : l_modules[i].id = i - 1
        /\ \A i \in 1..Len(h_modules) :
              h_modules[i].id = i - 1 /\ h_modules[i].planning_depth = 5
        /\ get_model_info.l_modules = last_init[1]
        /\ get_model_info.h_modules = last_init[2]
        /\ output.kind = "initialize_modules" =>
              /\ \A i \in 1..Len(l_modules) : l_modules[i].activation = 0
              /\ \A i \in 1..Len(h_modules) : h_modules[i].activation = 0

\* The formulas of the claim, in the order the claim writes them.
C5_Fast(i, sensory_data, influence) ==
    FMul(FMul(FDivInt(FSum(sensory_data), Len(sensory_data)), F(i, 10)),
         FAdd(Scale, FMul(F(2, 10), influence)))

C5_Deep(i, fast, planning_depth, valence) ==
    FMul(FMul(FDivInt(FSum(fast), planning_depth), F(i, 5)),
         FAdd(Scale, FMul(F(1, 10), valence)))

\* C5: with F=3, D=2, no metrics set and sensory_data [1.0, 2.0, 3.0], process
\* returns fast [0.2, 0.4, 0.6] and deep [0.048, 0.096]; in general
\* fast[i] = mean(sensory) * (i+1)/10 * (1 + 0.2*influence) and
\* deep[i] = (sum(fast)/planning_depth) * (i+1)/5 * (1 + 0.1*valence).
C5_Activations ==
    [][\A j \in InputJsons :
          (j.parses /\ output'.kind = "output" /\ ProcessCognitiveInput(j)) =>
              LET influence == PersonalityInfluence(personality_metrics)
                  fast == [i \in 1..Len(l_modules) |->
                              C5_Fast(i, j.input.sensory_data, influence)]
                  deep == [i \in 1..Len(h_modules) |->
                              C5_Deep(i, fast, h_modules[i].planning_depth,
                                      emotional_state.valence)]
              IN  /\ output'.l_module_activations = JsonSeq(fast)
                  /\ output'.h_module_activations = JsonSeq(deep)
                  /\ (/\ j = Quiet
                      /\ Len(l_modules) = 3
                      /\ Len(h_modules) = 2
                      /\ DOMAIN personality_metrics = {}) =>
                        /\ output'.l_module_activations = <<F(2, 10), F(4, 10), F(6, 10)>>
                        /\ output'.h_module_activations = <<F(48, 1000), F(96, 1000)>>
    ]_vars

\* The scenario of C5 has run on a fresh engine.
C5_Witness ==
    /\ output.kind = "output"
    /\ Len(adaptation_history) = 1
    /\ DOMAIN personality_metrics = {}
    /\ last_init = <<3, 2>>
    /\ output.l_module_activations = <<F(2, 10), F(4, 10), F(6, 10)>>
    /\ output.h_module_activations = <<F(48, 1000), F(96, 1000)>>

\* C6: process_cognitive_input with empty sensory_data on a pool of 2 fast units
\* returns and stores the fast activations [0.0, 0.0].
C6_EmptySensoryIsZero ==
    [][(Len(l_modules) = 2 /\ ProcessCognitiveInput(NoData)) =>
          /\ output'.l_module_activations = <<0, 0>>
          /\ \A i \in 1..Len(l_modules') : l_modules'[i].activation = 0
    ]_vars

\* C7: the confidence every successful process_cognitive_input returns is
\* within [0, 1].
C7_ConfidenceInRange ==
    output.kind = "output" => InRange(output.confidence, 0, Scale)

\* A call on a full pool whose unclamped confidence exceeds 1.
C7_Witness ==
    /\ output.kind = "output"
    /\ Len(l_modules) >= 3
    /\ output.confidence = Scale
    /\ FGt(calculate_variance([i \in 1..Len(l_modules) |-> l_modules[i].activation]),
           2 * Scale)

\* C8: the adaptation score is within [-1, 1] for every reachable adaptation
\* history, and is exactly 0 when the history is empty.
C8_AdaptationScoreInRange ==
    /\ InRange(calculate_adaptation_score(adaptation_history), -Scale, Scale)
    /\ adaptation_history = <<>> => calculate_adaptation_score(adaptation_history) = 0
    /\ output.kind = "output" => InRange(output.adaptation_score, -Scale, Scale)

\* A history that holds feedback, NaN included, scored by a process call.
C8_Witness ==
    /\ output.kind = "output"
    /\ \E i \in 1..Len(adaptation_history) : IsNaN(adaptation_history[i].user_feedback)
    /\ output.adaptation_score = Scale

\* C9: in every reachable state every stored personality metric is within [-1, 1].
C9_MetricsInRange ==
    \A m \in DOMAIN personality_metrics : InRange(personality_metrics[m], -Scale, Scale)

\* C10: emotional valence keeps its initial value 0 in every reachable state.
C10_ValenceConstant == emotional_state.valence = 0

\* Two process calls and other operations have run.
C10_Witness ==
    /\ Len(adaptation_history) >= 2
    /\ emotional_state.arousal # F(5, 10)
    /\ DOMAIN personality_metrics # {}
    /\ l_modules # <<>>

\* C11: update_user_feedback called while the adaptation history is empty is a
\* no-op: the personality metrics and the history are unchanged.
C11_FeedbackOnEmptyHistory ==
    [][(output'.kind = "update_user_feedback" /\ adaptation_history = <<>>) =>
          /\ personality_metrics' = personality_metrics
          /\ adaptation_history' = adaptation_history
    ]_vars

\* update_user_feedback has returned with metrics stored and no event recorded.
C11_Witness ==
    /\ output.kind = "update_user_feedback"
    /\ adaptation_history = <<>>
    /\ "curiosity" \in DOMAIN personality_metrics

\* The engine state process_cognitive_input may write.
EngineState ==
    <<weights_len, l_modules, h_modules, personality_metrics, adaptation_history,
      host_interface, current_task, attention_focus, memory_buffer, emotional_state,
      processing_mode>>

\* C12: process_cognitive_input on input that cannot be decoded returns "{}" and
\* leaves the whole engine state as before the call.
C12_MalformedLeavesState ==
    [][\A j \in InputJsons :
          (~j.parses /\ output'.kind \in {"empty", "output"}
                     /\ ProcessCognitiveInput(j)) =>
              /\ output' = EmptyRecord
              /\ EngineState' = EngineState
    ]_vars

\* "{}" has been returned by an engine that holds units, a task and events.
C12_Witness ==
    /\ output.kind = "empty"
    /\ adaptation_history # <<>>
    /\ l_modules # <<>>
    /\ current_task = "analysis"

\* clamp(f, -1, 1) as the claim uses it (NaN is no number to clamp).
C13_Clamp(f) ==
    IF IsNaN(f) THEN NaN ELSE IF f < -Scale THEN -Scale ELSE IF f > Scale THEN Scale ELSE f

\* C13: update_user_feedback(f) on a non-empty history sets the feedback of the
\* most recent event to clamp(f, -1, 1) and leaves the length of the history
\* and every earlier event unchanged.
C13_FeedbackWritesLastEvent ==
    [][\A f \in FeedbackValues :
          (/\ output'.kind = "update_user_feedback"
           /\ adaptation_history # <<>>
           /\ UpdateUserFeedback(f)) =>
              LET n == Len(adaptation_history)
              IN  /\ Len(adaptation_history') = n
                  /\ adaptation_history'[n] =
                        [adaptation_history[n] EXCEPT !.user_feedback = C13_Clamp(f)]
                  /\ \A i \in 1..(n - 1) : adaptation_history'[i] = adaptation_history[i]
    ]_vars

\* Feedback outside [-1, 1] has been written to the second of two events.
C13_Witness ==
    /\ output.kind = "update_user_feedback"
    /\ Len(adaptation_history) = 2
    /\ adaptation_history[2].user_feedback = -Scale
    /\ adaptation_history[1].user_feedback # -Scale

\* The average of the feedback of the last min(10, n) events, clamped to [-1, 1].
C14_Average(history) ==
    LET recent == RecentFeedback(history)
    IN  IF recent = <<>> THEN 0
        ELSE FClamp(FDivInt(FSum(recent), Len(recent)), -Scale, Scale)

\* C14: the adaptation score is the average of the feedback values of the last
\* min(10, n) entries of an n-entry history, divided by the number of entries
\* taken and clamped to [-1, 1].
C14_ScoreIsAverage ==
    output.kind = "output" =>
        output.adaptation_score = JsonF32(C14_Average(adaptation_history))

\* C15: once update_user_feedback has written an event's feedback, no later
\* operation changes that event's feedback.
C15_FeedbackWrittenOnce ==
    [][\A i \in feedback_written :
          adaptation_history'[i].user_feedback = adaptation_history[i].user_feedback
    ]_vars

\* C16: every successful process_cognitive_input appends exactly one adaptation
\* event with feedback 0 at the end of the history, and no other operation
\* changes the length of the history: the length counts the successful process
\* calls and never decreases.
C16_HistoryAppendOnly ==
    [][IF output'.kind = "output"
       THEN /\ Len(adaptation_history') = Len(adaptation_history) + 1
            /\ SubSeq(adaptation_history', 1, Len(adaptation_history)) = adaptation_history
            /\ adaptation_history'[Len(adaptation_history')].user_feedback = 0
       ELSE Len(adaptation_history') = Len(adaptation_history)
    ]_vars

\* A process call has appended a fresh event behind one that carries feedback,
\* and the buffer has been cleared since.
C16_Witness ==
    /\ output.kind = "clear_memory_buffer"
    /\ Len(adaptation_history) = 2
    /\ adaptation_history[1].user_feedback = F(9, 10)
    /\ adaptation_history[2].user_feedback = 0

\* C17: for any f outside [-1, 1], update_user_feedback(f) leaves the personality
\* metrics as update_user_feedback(clamp(f, -1, 1)) would from the same state.
C17_FeedbackClampedBeforeUse ==
    [][\A f \in FeedbackValues :
          (/\ output'.kind = "update_user_feedback"
           /\ ~IsNaN(f) /\ (f < -Scale \/ f > Scale)
           /\ adaptation_history # <<>>
           /\ UpdateUserFeedback(f)) =>
              personality_metrics' =
                  adapt_personality_from_feedback(personality_metrics, C13_Clamp(f))
    ]_vars

\* C18: when an activation sequence is empty its mean is treated as 0: with no
\* fast units arousal becomes 0.9*arousal, with no deep units dominance becomes
\* 0.9*dominance, and stability stays a number.
C18_EmptyMeanIsZero ==
    [][output'.kind = "output" =>
          /\ (l_modules = <<>> /\ ~IsNaN(emotional_state.arousal)) =>
                 emotional_state'.arousal = FMul(emotional_state.arousal, F(9, 10))
          /\ (h_modules = <<>> /\ ~IsNaN(emotional_state.dominance)) =>
                 emotional_state'.dominance = FMul(emotional_state.dominance, F(9, 10))
          /\ ~IsNaN(emotional_state'.stability)
    ]_vars

\* C19: stability is advanced exactly once per successful process call by
\* stability' = 0.95*stability + 0.05, whatever the input, and by no other
\* operation; it never decreases and never exceeds 1.0.
C19_StabilityAdvance ==
    [][/\ emotional_state'.stability =
              IF output'.kind = "output"
              THEN FAdd(FMul(emotional_state.stability, F(95, 100)), F(5, 100))
              ELSE emotional_state.stability
       /\ emotional_state'.stability >= emotional_state.stability
       /\ emotional_state'.stability <= Scale
    ]_vars

\* After a long run of process calls stability is within 0.001 of its ceiling.
C19_Witness ==
    /\ output.kind = "output"
    /\ Len(adaptation_history) >= 100
    /\ emotional_state.stability >= F(999, 1000)
    /\ emotional_state.stability <= Scale

\* The activations the units hold.
StoredActivations(modules) == [i \in 1..Len(modules) |-> modules[i].activation]

\* C20: the confidence a process call returns is computed with the emotional
\* state (stability) after that call's update, not the one the call started with.
C20_ConfidenceAfterUpdate ==
    output.kind = "output" =>
        output.confidence =
            JsonF32(calculate_confidence(StoredActivations(l_modules),
                                         StoredActivations(h_modules), emotional_state))

\* A process call has returned a confidence that is neither 0 nor capped at 1,
\* so the stability factor shows in it.
C20_Witness ==
    /\ output.kind = "output"
    /\ output.confidence > 0
    /\ output.confidence < Scale

\* C21: a process call whose significance (the mean of all fast and deep
\* activations) is not greater than 0.5 leaves the memory buffer unchanged, and
\* every item in the buffer has importance > 0.5.
C21_AdmissionGated ==
    [][/\ (/\ output'.kind = "output"
           /\ ~FGt(Significance(StoredActivations(l_modules'),
                                StoredActivations(h_modules')), F(5, 10))) =>
              memory_buffer' = memory_buffer
       /\ \A i \in 1..Len(memory_buffer') :
              /\ ~IsNaN(memory_buffer'[i].importance)
              /\ memory_buffer'[i].importance > F(5, 10)
    ]_vars

\* Of two process calls the first was admitted and the second, below the
\* threshold with a positive significance, was not.
C21_Witness ==
    /\ output.kind = "output"
    /\ Len(adaptation_history) = 2
    /\ Len(memory_buffer) = 1
    /\ memory_buffer[1].timestamp = adaptation_history[1].timestamp
    /\ FGt(Significance(StoredActivations(l_modules), StoredActivations(h_modules)), 0)

\* The cognitive, personality and module state: everything but the host interface.
PipelineState ==
    <<weights_len, l_modules, h_modules, personality_metrics, adaptation_history,
      current_task, attention_focus, memory_buffer, emotional_state, processing_mode>>

\* C23: the host message queue is FIFO and decoupled from the pipeline:
\* connect_to_desktop and send_host_message put one message at the end of the
\* queue and change no cognitive, personality or module state;
\* get_pending_messages returns the whole queue in enqueue order and leaves it
\* empty; no other operation, process_cognitive_input included, changes the queue.
C23_HostQueueFifo ==
    [][LET queue == host_interface.message_queue
           after == host_interface'.message_queue
       IN  CASE output'.kind \in {"connect_to_desktop", "send_host_message"} ->
                    /\ Len(after) = Len(queue) + 1
                    /\ SubSeq(after, 1, Len(queue)) = queue
                    /\ after[Len(after)].message_type =
                          (IF output'.kind = "connect_to_desktop"
                           THEN "capabilities" ELSE "task")
                    /\ PipelineState' = PipelineState
             [] output'.kind = "get_pending_messages" ->
                    /\ output'.value = queue
                    /\ after = <<>>
             [] OTHER -> after = queue
    ]_vars

\* A drain has delivered two messages in the order they were queued, and the
\* queue is empty.
C23_Witness ==
    /\ output.kind = "get_pending_messages"
    /\ Len(output.value) = 2
    /\ output.value[1].message_type = "capabilities"
    /\ output.value[2].message_type = "task"
    /\ output.value[1].timestamp < output.value[2].timestamp
    /\ host_interface.message_queue = <<>>

\* C24: no sequence of public AgentCore operations sets the initialized flag:
\* initialized is false in every reachable state, every agent_core_execute and
\* agent_core_execute_tool call returns the "Agent not initialized" error, and
\* the agent's memory stays empty, within max_context_size.
C24_NeverInitialized ==
    /\ ~agent.initialized
    /\ agent.memory = <<>>
    /\ Len(agent.memory) <= max_context_size
    /\ agent_output.kind \in {"agent_core_execute", "agent_core_execute_tool"} =>
           agent_output.value = NotInitializedError

\* agent_core_execute has returned after an adapter was loaded and a skill applied.
C24_Witness ==
    /\ agent_output.kind = "agent_core_execute"
    /\ Len(agent_calls) = 3
    /\ agent_calls[1] = "agent_core_load_lora"
    /\ agent_calls[2] = "agent_core_apply_skill"

\* The engine the variables hold after the step, with processing_mode replaced.
SelfAfter(mode) ==
    [weights_len |-> weights_len', l_modules |-> l_modules', h_modules |-> h_modules',
     personality_metrics |-> personality_metrics',
     adaptation_history |-> adaptation_history', host_interface |-> host_interface',
     current_task |-> current_task', attention_focus |-> attention_focus',
     memory_buffer |-> memory_buffer', emotional_state |-> emotional_state',
     processing_mode |-> mode]

\* A second engine, given the same call, returns what this step returned and
\* ends equal to this engine except for processing_mode, which is `mode`.
SameButMode(second, mode) == second.ret = output' /\ second.self = SelfAfter(mode)

\* C22: the processing mode is inert: an engine that differs from this one only
\* in processing_mode and receives the same operation returns the same output
\* and reaches a state equal to this one's except for processing_mode.
C22_ModeInert ==
    [][\A m \in Modes :
        /\ \A c \in UnitCounts :
              (output'.kind = "initialize_modules" /\ InitializeModules(c[1], c[2])) =>
                  SameButMode(initialize_modules(Self(m), c[1], c[2]), m)
        /\ \A j \in InputJsons :
              (output'.kind \in {"output", "empty"} /\ ProcessCognitiveInput(j)) =>
                  SameButMode(process_cognitive_input(Self(m), j, now), m)
        /\ \A n \in WeightSizes :
              (output'.kind = "load_weights" /\ LoadWeights(n)) =>
                  SameButMode(load_weights(Self(m), n), m)
        /\ \A k \in MetricNames, v \in MetricValues :
              (output'.kind = "set_personality_metric" /\ SetPersonalityMetric(k, v)) =>
                  SameButMode(set_personality_metric(Self(m), k, v), m)
        /\ \A f \in FeedbackValues :
              (output'.kind = "update_user_feedback" /\ UpdateUserFeedback(f)) =>
                  SameButMode(update_user_feedback(Self(m), f), m)
        /\ \A name \in ModeNames :
              (output'.kind = "set_processing_mode" /\ SetProcessingMode(name)) =>
                  SameButMode(set_processing_mode(Self(m), name), processing_mode')
        /\ output'.kind = "clear_memory_buffer" =>
              SameButMode(clear_memory_buffer(Self(m)), m)
        /\ output'.kind = "connect_to_desktop" =>
              SameButMode(connect_to_desktop(Self(m), "desk", now), m)
        /\ output'.kind = "send_host_message" =>
              SameButMode(send_host_message(Self(m), "task", "payload", now), m)
        /\ output'.kind = "get_pending_messages" =>
              SameButMode(get_pending_messages(Self(m)), m)
    ]_vars

\* An engine switched to Creative mode has processed an input through 3 fast
\* and 2 deep units.
C22_Witness ==
    /\ processing_mode = "Creative"
    /\ output.kind = "output"
    /\ Len(output.l_module_activations) = 3
    /\ Len(output.h_module_activations) = 2
    /\ output.l_module_activations[1] # JsonNull

====
